---------------------------- MODULE Spec2Model ----------------------------
(***************************************************************************)
(* CPU scheduling simulator of static/js/app.js: runSimulation,            *)
(* simulateScheduling and the four algorithms (fcfsScheduling,             *)
(* sjfScheduling, roundRobinScheduling, priorityScheduling) together with  *)
(* calculateStatistics.  One action per loop iteration of an algorithm, so *)
(* that every dispatch decision is a step of the state machine.            *)
(***************************************************************************)
EXTENDS Integers, Sequences, FiniteSets

(***************************************************************************)
(* Bounds of the model.                                                    *)
(***************************************************************************)
MaxProcs == 3
MaxArrival == 2
MaxBurst == 3
MaxPriority == 2
MaxQuantum == 2
MaxNegQuantum == 1
\* The burst times of one process list add up to at most this.
MaxTotalBurst == 4
\* The largest burst_time in the lists that admit a burst_time of 0.
MaxUncheckedBurst == 1
\* The longest process list on a page whose button is pressed again and again.
MaxRerunProcs == 2
\* The longest list of disk requests.
MaxRequests == 3
\* The number of loadProcesses calls on one page.
MaxLoads == 3

(***************************************************************************)
(* Values of JavaScript that are not integers.                             *)
(***************************************************************************)
\* A field the object does not have (completion_time before it is assigned).
Undefined == 0 - 1

\* The quantum used when the parsed field is falsy (NaN or 0).
DefaultQuantum == 3

Algorithms == {"fcfs", "sjf", "rr", "priority"}

\* What algorithmSelect.value can hold; "other" is any string that is not
\* one of the four cases of the switch.
Selectors == Algorithms \cup {"other"}

NotANumber == [nan |-> TRUE, val |-> 0]

\* parseInt of the quantum field: NaN or an integer.
ParsedQuantum ==
    {NotANumber}
        \cup {[nan |-> FALSE, val |-> v] : v \in (0 - MaxNegQuantum)..MaxQuantum}

\* parseInt(...) || 3
OrDefault(r) == IF r.nan \/ r.val = 0 THEN DefaultQuantum ELSE r.val

(***************************************************************************)
(* The process records the backend hands to the page.                      *)
(***************************************************************************)
ProcessRecords ==
    [pid : 1..MaxProcs, arrival_time : 0..MaxArrival,
     burst_time : 1..MaxBurst, priority : 1..MaxPriority]

RECURSIVE TotalBurst(_)
TotalBurst(s) == IF s = <<>> THEN 0 ELSE Head(s).burst_time + TotalBurst(Tail(s))

\* The records that can follow the list s: pids are unique within a list.
Extensions(s) ==
    {r \in ProcessRecords :
        /\ \A i \in DOMAIN s : s[i].pid # r.pid
        /\ TotalBurst(s) + r.burst_time <= MaxTotalBurst}

RECURSIVE ListsOfLength(_)
ListsOfLength(n) ==
    IF n = 0 THEN {<<>>}
    ELSE UNION {{Append(s, r) : r \in Extensions(s)} : s \in ListsOfLength(n - 1)}

\* The lists of up to longest records the model starts from, in every order.
ProcessLists(longest) == UNION {ListsOfLength(n) : n \in 0..longest}

\* Records as handleAddProcess sends them: parseInt of the burst time field is
\* not checked, so a burst_time of 0 gets through.
UncheckedRecords ==
    [pid : 1..MaxProcs, arrival_time : 0..MaxArrival,
     burst_time : 0..MaxUncheckedBurst, priority : 1..MaxPriority]

UncheckedExtensions(s) ==
    {r \in UncheckedRecords : \A i \in DOMAIN s : s[i].pid # r.pid}

RECURSIVE UncheckedListsOfLength(_)
UncheckedListsOfLength(n) ==
    IF n = 0 THEN {<<>>}
    ELSE UNION {{Append(s, r) : r \in UncheckedExtensions(s)} :
                   s \in UncheckedListsOfLength(n - 1)}

UncheckedLists(longest) == UNION {UncheckedListsOfLength(n) : n \in 0..longest}

(***************************************************************************)
(* Helpers on sequences of integers.                                       *)
(***************************************************************************)
Min2(a, b) == IF a < b THEN a ELSE b

SetMin(S) == CHOOSE x \in S : \A y \in S : x <= y

SetMax(S) == CHOOSE x \in S : \A y \in S : x >= y

RECURSIVE SumOver(_, _)
SumOver(f, n) == IF n = 0 THEN 0 ELSE f[n] + SumOver(f, n - 1)

Includes(s, x) == \E i \in DOMAIN s : s[i] = x

\* Array.prototype.filter over the indices 1..n, in index order.
RECURSIVE FilterIdx(_, _)
FilterIdx(n, keep) ==
    IF n = 0 THEN <<>>
    ELSE IF keep[n] THEN Append(FilterIdx(n - 1, keep), n)
         ELSE FilterIdx(n - 1, keep)

(***************************************************************************)
(* simulateScheduling: the objects the algorithms work on.                 *)
(***************************************************************************)
ProcessObject(p) ==
    [pid |-> p.pid, arrival_time |-> p.arrival_time,
     burst_time |-> p.burst_time, priority |-> p.priority,
     remaining_time |-> p.burst_time,
     completion_time |-> Undefined, turnaround_time |-> Undefined,
     waiting_time |-> Undefined]

ProcessObjects(ps) == [i \in DOMAIN ps |-> ProcessObject(ps[i])]

\* Variant: the algorithms work on the caller's own objects.
CallerRecordsAliased(ps, objs) == objs

\* The caller's records once an algorithm has written to its objects objs:
\* map built those objects afresh, so the write does not reach the records.
CallerRecords(ps, objs) == ps

\* Variant: the end of the segment is its duration, the start left out.
SegmentEndIsDuration(pid, start, duration) ==
    [pid |-> pid, start |-> start, end |-> duration, duration |-> duration]

\* Variant: the duration field holds the end of the segment.
SegmentDurationIsEnd(pid, start, duration) ==
    [pid |-> pid, start |-> start, end |-> start + duration,
     duration |-> start + duration]

\* The object pushed on the timeline.
Segment(pid, start, duration) ==
    [pid |-> pid, start |-> start, end |-> start + duration, duration |-> duration]

\* Variant: waiting_time computed from completion_time, not turnaround_time.
CompleteWaitingFromCompletion(p, t) ==
    [p EXCEPT !.completion_time = t,
              !.turnaround_time = t - p.arrival_time,
              !.waiting_time = t - p.burst_time]

\* The three assignments made when a process finishes at time t.
Complete(p, t) ==
    [p EXCEPT !.completion_time = t,
              !.turnaround_time = t - p.arrival_time,
              !.waiting_time = (t - p.arrival_time) - p.burst_time]

(***************************************************************************)
(* fcfsScheduling: the stable sort by (arrival_time, pid).  The sorted     *)
(* array holds the objects themselves; here it holds their indices.        *)
(***************************************************************************)
\* Variant: the comparator without its tie-break on pid.
FcfsCompareArrivalOnly(a, b) == a.arrival_time - b.arrival_time

\* The comparator a.arrival_time - b.arrival_time || a.pid - b.pid.
FcfsCompare(a, b) ==
    IF a.arrival_time - b.arrival_time # 0
    THEN a.arrival_time - b.arrival_time
    ELSE a.pid - b.pid

RECURSIVE InsertSorted(_, _, _)
InsertSorted(objs, s, x) ==
    IF s = <<>> THEN <<x>>
    ELSE IF FcfsCompare(objs[Head(s)], objs[x]) > 0 THEN <<x>> \o s
         ELSE <<Head(s)>> \o InsertSorted(objs, Tail(s), x)

RECURSIVE SortPrefix(_, _)
SortPrefix(objs, n) ==
    IF n = 0 THEN <<>> ELSE InsertSorted(objs, SortPrefix(objs, n - 1), n)

SortedIndices(objs) == SortPrefix(objs, Len(objs))

(***************************************************************************)
(* sjfScheduling and priorityScheduling: filter, then reduce.              *)
(***************************************************************************)
\* processesCopy.filter(p => p.arrival_time <= currentTime && !completed.includes(p))
\* Variant: a process is eligible before it has arrived.
AvailableBeforeArrival(objs, done, t) ==
    FilterIdx(Len(objs), [i \in DOMAIN objs |-> ~Includes(done, i)])

\* Variant: a completed process stays eligible.
AvailableWithCompleted(objs, done, t) ==
    FilterIdx(Len(objs), [i \in DOMAIN objs |-> objs[i].arrival_time <= t])

\* processesCopy.filter(p => p.arrival_time <= currentTime && !completed.includes(p))
Available(objs, done, t) ==
    FilterIdx(Len(objs),
              [i \in DOMAIN objs |-> objs[i].arrival_time <= t /\ ~Includes(done, i)])

\* Variant: the comparison of the SJF reducer turned around.
SjfPrefersLonger(current, shortest) == current.burst_time > shortest.burst_time

\* The test of the SJF reducer: does current replace shortest?
SjfPrefers(current, shortest) == current.burst_time < shortest.burst_time

RECURSIVE SjfReduce(_, _, _)
SjfReduce(objs, avail, n) ==
    IF n = 1 THEN avail[1]
    ELSE LET shortest == SjfReduce(objs, avail, n - 1)
             current == avail[n]
         IN IF SjfPrefers(objs[current], objs[shortest]) THEN current ELSE shortest

\* Variant: <= for <, so that the last of the tied processes wins.
PriorityPrefersLast(current, highest) == current.priority <= highest.priority

\* The test of the Priority reducer: does current replace highest?
PriorityPrefers(current, highest) == current.priority < highest.priority

RECURSIVE PriorityReduce(_, _, _)
PriorityReduce(objs, avail, n) ==
    IF n = 1 THEN avail[1]
    ELSE LET highest == PriorityReduce(objs, avail, n - 1)
             current == avail[n]
         IN IF PriorityPrefers(objs[current], objs[highest]) THEN current ELSE highest

\* Variant: the jump goes to the latest arrival, not the earliest.
NextArrivalLatest(objs, done) ==
    SetMax({objs[i].arrival_time : i \in {j \in DOMAIN objs : ~Includes(done, j)}})

\* Math.min over the arrival times of the processes not yet completed.
NextArrival(objs, done) ==
    SetMin({objs[i].arrival_time : i \in {j \in DOMAIN objs : ~Includes(done, j)}})

(***************************************************************************)
(* roundRobinScheduling.                                                   *)
(***************************************************************************)
\* processesCopy.filter(p => p.arrival_time === 0)
InitiallyReady(objs) ==
    FilterIdx(Len(objs), [i \in DOMAIN objs |-> objs[i].arrival_time = 0])

\* The processes the loop appends before a dispatch, in the order of filter.
NewlyArrived(objs, q, t) ==
    FilterIdx(Len(objs),
              [i \in DOMAIN objs |->
                  /\ objs[i].arrival_time <= t
                  /\ objs[i].remaining_time > 0
                  /\ ~Includes(q, i)])

\* Variant: the slice is the whole remaining time, whatever the quantum.
ExecuteTimeIgnoringQuantum(q, remaining) == remaining

\* Math.min(quantum, current.remaining_time)
ExecuteTime(q, remaining) == Min2(q, remaining)

\* The condition of the while loop.
RrLoopCondition(objs, q) ==
    Len(q) > 0 \/ \E i \in DOMAIN objs : objs[i].remaining_time > 0

\* The arrival times among which the idle branch takes the minimum.
LaterArrivals(objs, t) ==
    {objs[i].arrival_time :
        i \in {j \in DOMAIN objs :
                  objs[j].arrival_time > t /\ objs[j].remaining_time > 0}}

\* Variant: the idle branch jumps to the latest of the later arrivals.
RrJumpTargetLatest(objs, t) ==
    IF LaterArrivals(objs, t) = {} THEN t ELSE SetMax(LaterArrivals(objs, t))

\* Variant: the idle branch leaves currentTime where it is.
RrJumpTargetStays(objs, t) == t

\* currentTime after the idle branch: unchanged when Math.min gives Infinity.
RrJumpTarget(objs, t) ==
    IF LaterArrivals(objs, t) = {} THEN t ELSE SetMin(LaterArrivals(objs, t))

(***************************************************************************)
(* calculateStatistics.  A printed number is kept in hundredths.           *)
(***************************************************************************)
\* (num / den).toFixed(2) for num >= 0: the nearest hundredth, halves upwards.
ToFixed2(num, den) ==
    IF den = 0
    THEN [kind |-> IF num = 0 THEN "NaN" ELSE "Infinity", hundredths |-> 0]
    ELSE [kind |-> "number", hundredths |-> (200 * num + den) \div (2 * den)]

NaNText == [kind |-> "NaN", hundredths |-> 0]

\* Variant: the average response time taken from the turnaround times.
CalculateStatisticsResponseIsTurnaround(ps) ==
    IF Len(ps) = 0 THEN [empty |-> TRUE]
    ELSE IF \E i \in DOMAIN ps : ps[i].completion_time = Undefined
    THEN [empty |-> FALSE,
          avg_turnaround_time |-> NaNText, avg_waiting_time |-> NaNText,
          avg_response_time |-> NaNText, total_time |-> Undefined,
          throughput |-> NaNText]
    ELSE LET totalTurnaround == SumOver([i \in DOMAIN ps |-> ps[i].turnaround_time], Len(ps))
             totalWaiting == SumOver([i \in DOMAIN ps |-> ps[i].waiting_time], Len(ps))
             totalTime == SetMax({ps[i].completion_time : i \in DOMAIN ps})
         IN [empty |-> FALSE,
             avg_turnaround_time |-> ToFixed2(totalTurnaround, Len(ps)),
             avg_waiting_time |-> ToFixed2(totalWaiting, Len(ps)),
             avg_response_time |-> ToFixed2(totalTurnaround, Len(ps)),
             total_time |-> totalTime,
             throughput |-> ToFixed2(Len(ps), totalTime)]

\* Variant: the average waiting time taken from the turnaround times.
CalculateStatisticsWaitingIsTurnaround(ps) ==
    IF Len(ps) = 0 THEN [empty |-> TRUE]
    ELSE IF \E i \in DOMAIN ps : ps[i].completion_time = Undefined
    THEN [empty |-> FALSE,
          avg_turnaround_time |-> NaNText, avg_waiting_time |-> NaNText,
          avg_response_time |-> NaNText, total_time |-> Undefined,
          throughput |-> NaNText]
    ELSE LET totalTurnaround == SumOver([i \in DOMAIN ps |-> ps[i].turnaround_time], Len(ps))
             totalTime == SetMax({ps[i].completion_time : i \in DOMAIN ps})
         IN [empty |-> FALSE,
             avg_turnaround_time |-> ToFixed2(totalTurnaround, Len(ps)),
             avg_waiting_time |-> ToFixed2(totalTurnaround, Len(ps)),
             avg_response_time |-> ToFixed2(totalTurnaround, Len(ps)),
             total_time |-> totalTime,
             throughput |-> ToFixed2(Len(ps), totalTime)]

CalculateStatistics(ps) ==
    IF Len(ps) = 0 THEN [empty |-> TRUE]
    ELSE IF \E i \in DOMAIN ps : ps[i].completion_time = Undefined
    THEN [empty |-> FALSE,
          avg_turnaround_time |-> NaNText, avg_waiting_time |-> NaNText,
          avg_response_time |-> NaNText, total_time |-> Undefined,
          throughput |-> NaNText]
    ELSE LET totalTurnaround == SumOver([i \in DOMAIN ps |-> ps[i].turnaround_time], Len(ps))
             totalWaiting == SumOver([i \in DOMAIN ps |-> ps[i].waiting_time], Len(ps))
             totalTime == SetMax({ps[i].completion_time : i \in DOMAIN ps})
         IN [empty |-> FALSE,
             avg_turnaround_time |-> ToFixed2(totalTurnaround, Len(ps)),
             avg_waiting_time |-> ToFixed2(totalWaiting, Len(ps)),
             avg_response_time |-> ToFixed2(totalWaiting, Len(ps)),
             total_time |-> totalTime,
             throughput |-> ToFixed2(Len(ps), totalTime)]

NoStatistics == [empty |-> TRUE]

(***************************************************************************)
(* State.                                                                  *)
(***************************************************************************)
VARIABLES
    processes,        \* the global list loaded from the backend
    pc,               \* "idle", the algorithm whose loop is running, "done", "failed"
    algorithm,        \* the selector read by runSimulation
    parsedQuantum,    \* what parseInt made of the quantum field for that call
    quantum,          \* the quantum roundRobinScheduling was called with
    processesCopy,    \* the objects the running algorithm mutates
    sortedProcesses,  \* FCFS: indices of the objects in sorted order
    next,             \* FCFS: position of the for loop in sortedProcesses
    completed,        \* SJF, Priority: indices of the completed objects
    queue,            \* Round Robin: indices of the queued objects
    currentTime,
    timeline,
    statistics,       \* the value calculateStatistics returned
    ganttChart,       \* the timeline the chart shows
    statisticsShown,  \* the statistics the page shows
    alert             \* the type of the last alert shown

\* The disk page and the disk engine behind its /simulate request.
VARIABLES
    diskRequests,     \* the tracks of the loaded requests, request i at index i
    diskPc,           \* "idle", "sweep", "reversed", "done"
    direction,        \* the commanded direction, "up" or "down"
    serviced,         \* indices of the requests the head has visited
    headMovement,     \* the positions of the head, the initial one first
    diskStatistics,
    simulateDisabled,     \* simulateButton.disabled
    awaiting,             \* runDiskSimulation is suspended at its fetch
    simulateRequest,      \* the body of the last /simulate request sent
    headMovementChart,    \* the movement the chart shows
    diskStatisticsShown,  \* the statistics the disk page shows
    diskAlert             \* the type of the last alert of the disk page

\* The backend's list and the GET /processes requests of loadProcesses.
VARIABLES
    backendProcesses,  \* the list the backend holds
    loadsIssued,       \* how many loadProcesses calls have been made
    loadsInFlight,     \* the calls whose response has not been handled yet
    latestResponse     \* the response to the most recently issued call

cpuVars ==
    <<processes, pc, algorithm, parsedQuantum, quantum, processesCopy,
      sortedProcesses, next, completed, queue, currentTime, timeline, statistics,
      ganttChart, statisticsShown, alert>>

\* The locals and the display of runSimulation: cpuVars without the list and
\* the alert.
runVars ==
    <<pc, algorithm, parsedQuantum, quantum, processesCopy, sortedProcesses, next,
      completed, queue, currentTime, timeline, statistics, ganttChart, statisticsShown>>

loadVars == <<backendProcesses, loadsIssued, loadsInFlight, latestResponse>>

diskEngineVars == <<diskPc, direction, serviced, headMovement, diskStatistics>>

diskPageVars ==
    <<simulateDisabled, awaiting, simulateRequest, headMovementChart,
      diskStatisticsShown, diskAlert>>

diskVars == <<diskRequests, diskEngineVars, diskPageVars>>

\* No /simulate request has been sent yet.
NoRequest == [sent |-> FALSE]

vars == <<cpuVars, diskVars, loadVars>>

display == <<ganttChart, statisticsShown>>

\* The disk page before any simulation.
DiskLoaded ==
    /\ diskPc = "idle"
    /\ direction = "up"
    /\ serviced = {}
    /\ headMovement = <<>>
    /\ diskStatistics = NoStatistics
    /\ simulateDisabled = FALSE
    /\ awaiting = FALSE
    /\ simulateRequest = NoRequest
    /\ headMovementChart = <<>>
    /\ diskStatisticsShown = NoStatistics
    /\ diskAlert = "none"

\* The CPU page after it has loaded, whatever list the backend returned.
CpuLoaded ==
    /\ pc = "idle"
    /\ algorithm = "fcfs"
    /\ parsedQuantum = NotANumber
    /\ quantum = DefaultQuantum
    /\ processesCopy = <<>>
    /\ sortedProcesses = <<>>
    /\ next = 1
    /\ completed = <<>>
    /\ queue = <<>>
    /\ currentTime = 0
    /\ timeline = <<>>
    /\ statistics = NoStatistics
    /\ ganttChart = <<>>
    /\ statisticsShown = NoStatistics
    /\ alert = "none"

\* No loadProcesses call is under way: the page holds the backend's list.
LoadsSettled ==
    /\ backendProcesses = processes
    /\ loadsIssued = 0
    /\ loadsInFlight = {}
    /\ latestResponse = [ok |-> TRUE, data |-> processes]

\* The CPU page is a page of its own: nothing of the disk page is loaded.
PageLoaded ==
    /\ CpuLoaded
    /\ LoadsSettled
    /\ diskRequests = <<>>
    /\ DiskLoaded

Init ==
    /\ processes \in ProcessLists(MaxProcs)
    /\ PageLoaded

(***************************************************************************)
(* runSimulation up to the first loop test of the selected algorithm.      *)
(***************************************************************************)
\* processes.length === 0: a warning, and nothing else happens.
RunSimulationEmpty ==
    /\ pc = "idle"
    /\ Len(processes) = 0
    /\ alert' = "warning"
    /\ UNCHANGED <<processes, pc, algorithm, parsedQuantum, quantum, processesCopy,
                   sortedProcesses, next, completed, queue, currentTime,
                   timeline, statistics, ganttChart, statisticsShown>>
    /\ UNCHANGED <<diskVars, loadVars>>

\* The locals every algorithm starts from.
StartLocals(sel) ==
    /\ algorithm' = sel
    /\ processesCopy' = ProcessObjects(processes)
    /\ currentTime' = 0
    /\ timeline' = <<>>
    /\ completed' = <<>>
    /\ next' = 1
    /\ statistics' = NoStatistics

RunSimulationFcfs ==
    /\ pc = "idle"
    /\ Len(processes) > 0
    /\ StartLocals("fcfs")
    /\ UNCHANGED <<parsedQuantum, quantum>>
    /\ sortedProcesses' = SortedIndices(ProcessObjects(processes))
    /\ queue' = <<>>
    /\ pc' = "fcfs"
    /\ UNCHANGED <<processes, ganttChart, statisticsShown, alert>>
    /\ UNCHANGED <<diskVars, loadVars>>

RunSimulationSjf ==
    /\ pc = "idle"
    /\ Len(processes) > 0
    /\ StartLocals("sjf")
    /\ UNCHANGED <<parsedQuantum, quantum>>
    /\ sortedProcesses' = <<>>
    /\ queue' = <<>>
    /\ pc' = "sjf"
    /\ UNCHANGED <<processes, ganttChart, statisticsShown, alert>>
    /\ UNCHANGED <<diskVars, loadVars>>

RunSimulationRr(parsed) ==
    /\ pc = "idle"
    /\ Len(processes) > 0
    /\ StartLocals("rr")
    /\ parsedQuantum' = parsed
    /\ quantum' = OrDefault(parsed)
    /\ sortedProcesses' = <<>>
    /\ queue' = InitiallyReady(ProcessObjects(processes))
    /\ pc' = "rr"
    /\ UNCHANGED <<processes, ganttChart, statisticsShown, alert>>
    /\ UNCHANGED <<diskVars, loadVars>>

RunSimulationPriority ==
    /\ pc = "idle"
    /\ Len(processes) > 0
    /\ StartLocals("priority")
    /\ UNCHANGED <<parsedQuantum, quantum>>
    /\ sortedProcesses' = <<>>
    /\ queue' = <<>>
    /\ pc' = "priority"
    /\ UNCHANGED <<processes, ganttChart, statisticsShown, alert>>
    /\ UNCHANGED <<diskVars, loadVars>>

\* Variant: the failed run wipes what the page showed before.
RunSimulationUnknownClearsDisplay ==
    /\ pc = "idle"
    /\ Len(processes) > 0
    /\ StartLocals("other")
    /\ UNCHANGED <<parsedQuantum, quantum>>
    /\ sortedProcesses' = <<>>
    /\ queue' = <<>>
    /\ alert' = "danger"
    /\ pc' = "failed"
    /\ ganttChart' = <<>>
    /\ statisticsShown' = NoStatistics
    /\ UNCHANGED processes
    /\ UNCHANGED <<diskVars, loadVars>>

\* default: throw new Error('Unknown algorithm'), caught by runSimulation.
RunSimulationUnknown ==
    /\ pc = "idle"
    /\ Len(processes) > 0
    /\ StartLocals("other")
    /\ UNCHANGED <<parsedQuantum, quantum>>
    /\ sortedProcesses' = <<>>
    /\ queue' = <<>>
    /\ alert' = "danger"
    /\ pc' = "failed"
    /\ UNCHANGED <<processes, ganttChart, statisticsShown>>
    /\ UNCHANGED <<diskVars, loadVars>>

(***************************************************************************)
(* The return of an algorithm and the rest of runSimulation.               *)
(***************************************************************************)
Return(ps) ==
    /\ statistics' = CalculateStatistics(ps)
    /\ ganttChart' = timeline
    /\ statisticsShown' = CalculateStatistics(ps)
    /\ alert' = "success"
    /\ pc' = "done"
    /\ UNCHANGED <<processes, algorithm, parsedQuantum, quantum, processesCopy, sortedProcesses,
                   next, completed, queue, currentTime, timeline>>
    /\ UNCHANGED <<diskVars, loadVars>>

(***************************************************************************)
(* fcfsScheduling: one iteration of the for loop.                          *)
(***************************************************************************)
FcfsStep ==
    /\ pc = "fcfs"
    /\ next <= Len(sortedProcesses)
    /\ LET i == sortedProcesses[next]
           process == processesCopy[i]
           start == IF currentTime < process.arrival_time
                    THEN process.arrival_time ELSE currentTime
       IN /\ timeline' = Append(timeline, Segment(process.pid, start, process.burst_time))
          /\ currentTime' = start + process.burst_time
          /\ processesCopy' =
                [processesCopy EXCEPT ![i] = Complete(process, start + process.burst_time)]
    /\ next' = next + 1
    /\ processes' = CallerRecords(processes, processesCopy')
    /\ UNCHANGED <<pc, algorithm, parsedQuantum, quantum, sortedProcesses, completed,
                   queue, statistics, ganttChart, statisticsShown, alert>>
    /\ UNCHANGED <<diskVars, loadVars>>

FcfsReturn ==
    /\ pc = "fcfs"
    /\ next > Len(sortedProcesses)
    /\ Return([k \in DOMAIN sortedProcesses |-> processesCopy[sortedProcesses[k]]])

(***************************************************************************)
(* sjfScheduling: one iteration of the while loop.                         *)
(***************************************************************************)
\* The branch shared by SJF and Priority once a process is selected.
RunToCompletion(selected) ==
    LET p == processesCopy[selected]
    IN /\ timeline' = Append(timeline, Segment(p.pid, currentTime, p.burst_time))
       /\ currentTime' = currentTime + p.burst_time
       /\ processesCopy' =
             [processesCopy EXCEPT ![selected] = Complete(p, currentTime + p.burst_time)]
       /\ completed' = Append(completed, selected)
       /\ processes' = CallerRecords(processes, processesCopy')

SjfDispatch ==
    /\ pc = "sjf"
    /\ Len(completed) < Len(processesCopy)
    /\ LET available == Available(processesCopy, completed, currentTime)
       IN /\ Len(available) > 0
          /\ RunToCompletion(SjfReduce(processesCopy, available, Len(available)))
    /\ UNCHANGED <<pc, algorithm, parsedQuantum, quantum, sortedProcesses, next, queue,
                   statistics, ganttChart, statisticsShown, alert>>
    /\ UNCHANGED <<diskVars, loadVars>>

SjfIdleJump ==
    /\ pc = "sjf"
    /\ Len(completed) < Len(processesCopy)
    /\ Len(Available(processesCopy, completed, currentTime)) = 0
    /\ currentTime' = NextArrival(processesCopy, completed)
    /\ UNCHANGED <<processes, pc, algorithm, parsedQuantum, quantum, processesCopy, sortedProcesses,
                   next, completed, queue, timeline, statistics, ganttChart,
                   statisticsShown, alert>>
    /\ UNCHANGED <<diskVars, loadVars>>

SjfReturn ==
    /\ pc = "sjf"
    /\ ~(Len(completed) < Len(processesCopy))
    /\ Return([k \in DOMAIN completed |-> processesCopy[completed[k]]])

(***************************************************************************)
(* priorityScheduling: one iteration of the while loop.                    *)
(***************************************************************************)
PriorityDispatch ==
    /\ pc = "priority"
    /\ Len(completed) < Len(processesCopy)
    /\ LET available == Available(processesCopy, completed, currentTime)
       IN /\ Len(available) > 0
          /\ RunToCompletion(PriorityReduce(processesCopy, available, Len(available)))
    /\ UNCHANGED <<pc, algorithm, parsedQuantum, quantum, sortedProcesses, next, queue,
                   statistics, ganttChart, statisticsShown, alert>>
    /\ UNCHANGED <<diskVars, loadVars>>

PriorityIdleJump ==
    /\ pc = "priority"
    /\ Len(completed) < Len(processesCopy)
    /\ Len(Available(processesCopy, completed, currentTime)) = 0
    /\ currentTime' = NextArrival(processesCopy, completed)
    /\ UNCHANGED <<processes, pc, algorithm, parsedQuantum, quantum, processesCopy, sortedProcesses,
                   next, completed, queue, timeline, statistics, ganttChart,
                   statisticsShown, alert>>
    /\ UNCHANGED <<diskVars, loadVars>>

PriorityReturn ==
    /\ pc = "priority"
    /\ ~(Len(completed) < Len(processesCopy))
    /\ Return([k \in DOMAIN completed |-> processesCopy[completed[k]]])

(***************************************************************************)
(* roundRobinScheduling: one iteration of the while loop.                  *)
(***************************************************************************)
\* Variant: the newly arrived processes go in front of the process that was
\* put back last.
QueueAtDispatchArrivalsFirst ==
    IF queue = <<>> THEN NewlyArrived(processesCopy, queue, currentTime)
    ELSE SubSeq(queue, 1, Len(queue) - 1)
            \o NewlyArrived(processesCopy, queue, currentTime)
            \o <<queue[Len(queue)]>>

\* The queue after the loop has appended the newly arrived processes.
QueueAtDispatch == queue \o NewlyArrived(processesCopy, queue, currentTime)

\* Variant: a process with one unit left already counts as finished.
RrFinishedOneEarly(remaining) == remaining <= 1

\* The test that decides between the completion fields and re-queueing.
RrFinished(remaining) == remaining = 0

\* With a negative quantum remaining_time grows without end; the model follows
\* such a run only while the dispatched process has no more left than it began
\* with, which on a positive quantum is always the case.
RrDispatch ==
    /\ pc = "rr"
    /\ RrLoopCondition(processesCopy, queue)
    /\ Len(QueueAtDispatch) > 0
    /\ processesCopy[Head(QueueAtDispatch)].remaining_time
          <= processesCopy[Head(QueueAtDispatch)].burst_time
    /\ LET current == Head(QueueAtDispatch)
           p == processesCopy[current]
           executeTime == ExecuteTime(quantum, p.remaining_time)
           ran == [p EXCEPT !.remaining_time = p.remaining_time - executeTime]
       IN /\ timeline' = Append(timeline, Segment(p.pid, currentTime, executeTime))
          /\ currentTime' = currentTime + executeTime
          /\ IF RrFinished(ran.remaining_time)
             THEN /\ processesCopy' =
                        [processesCopy EXCEPT
                            ![current] = Complete(ran, currentTime + executeTime)]
                  /\ queue' = Tail(QueueAtDispatch)
             ELSE /\ processesCopy' = [processesCopy EXCEPT ![current] = ran]
                  /\ queue' = Append(Tail(QueueAtDispatch), current)
    /\ processes' = CallerRecords(processes, processesCopy')
    /\ UNCHANGED <<pc, algorithm, parsedQuantum, quantum, sortedProcesses, next,
                   completed, statistics, ganttChart, statisticsShown, alert>>
    /\ UNCHANGED <<diskVars, loadVars>>

RrIdleJump ==
    /\ pc = "rr"
    /\ RrLoopCondition(processesCopy, queue)
    /\ Len(QueueAtDispatch) = 0
    /\ currentTime' = RrJumpTarget(processesCopy, currentTime)
    /\ queue' = QueueAtDispatch
    /\ UNCHANGED <<processes, pc, algorithm, parsedQuantum, quantum, processesCopy, sortedProcesses,
                   next, completed, timeline, statistics, ganttChart,
                   statisticsShown, alert>>
    /\ UNCHANGED <<diskVars, loadVars>>

RrReturn ==
    /\ pc = "rr"
    /\ ~RrLoopCondition(processesCopy, queue)
    /\ Return(processesCopy)

(***************************************************************************)
(* Specifications.                                                         *)
(***************************************************************************)
\* The quantum field is parsed on every call, and only Round Robin uses the
\* result; the variable quantum keeps the value Round Robin received.
RunSimulation ==
    \/ RunSimulationEmpty
    \/ RunSimulationFcfs
    \/ RunSimulationSjf
    \/ \E parsed \in ParsedQuantum : RunSimulationRr(parsed)
    \/ RunSimulationPriority
    \/ RunSimulationUnknown

\* The steps the JavaScript engine takes on its own once runSimulation runs.
Step ==
    \/ FcfsStep \/ FcfsReturn
    \/ SjfDispatch \/ SjfIdleJump \/ SjfReturn
    \/ PriorityDispatch \/ PriorityIdleJump \/ PriorityReturn
    \/ RrDispatch \/ RrIdleJump \/ RrReturn

Next == RunSimulation \/ Step

Spec == Init /\ [][Next]_vars

\* A started call runs on: the engine does not stop in the middle of a loop.
FairSpec == Spec /\ WF_vars(Step)

\* The same page over lists in which a burst_time may be 0.
InitUnchecked ==
    /\ processes \in UncheckedLists(MaxProcs)
    /\ PageLoaded

UncheckedSpec == InitUnchecked /\ [][Next]_vars

\* simulateScheduling called on an empty collection, without runSimulation in
\* front of it.  No loop of any algorithm is entered: the timeline is [],
\* calculateStatistics([]) is {}, and the call returns; the default branch of
\* the switch throws.
SimulateSchedulingOnEmpty(sel) ==
    /\ pc = "idle"
    /\ Len(processes) = 0
    /\ StartLocals(sel)
    /\ sortedProcesses' = <<>>
    /\ queue' = <<>>
    /\ pc' = IF sel \in Algorithms THEN "returned" ELSE "thrown"
    /\ UNCHANGED <<processes, parsedQuantum, quantum, ganttChart, statisticsShown, alert>>
    /\ UNCHANGED <<diskVars, loadVars>>

SimulateScheduling == \E sel \in Selectors : SimulateSchedulingOnEmpty(sel)

\* The click handler is over (finally block passed): its locals are gone, the
\* page keeps what it shows, and the button can be pressed again.
RunSimulationEnds ==
    /\ pc \in {"done", "failed"}
    /\ pc' = "idle"
    /\ algorithm' = "fcfs"
    /\ parsedQuantum' = NotANumber
    /\ quantum' = DefaultQuantum
    /\ processesCopy' = <<>>
    /\ sortedProcesses' = <<>>
    /\ next' = 1
    /\ completed' = <<>>
    /\ queue' = <<>>
    /\ currentTime' = 0
    /\ timeline' = <<>>
    /\ statistics' = NoStatistics
    /\ UNCHANGED <<processes, ganttChart, statisticsShown, alert>>
    /\ UNCHANGED <<diskVars, loadVars>>

InitRerun ==
    /\ processes \in ProcessLists(MaxRerunProcs)
    /\ PageLoaded

\* One simulation after another on the same page.
RerunSpec == InitRerun /\ [][Next \/ RunSimulationEnds]_vars

\* The list of the worked FCFS example, P1(arrival 0, burst 5) and P2(arrival
\* 1, burst 3), next to the empty list and the lists of one process.
ExampleProcesses ==
    <<[pid |-> 1, arrival_time |-> 0, burst_time |-> 5, priority |-> 1],
      [pid |-> 2, arrival_time |-> 1, burst_time |-> 3, priority |-> 1]>>

InitExample ==
    /\ processes \in {ExampleProcesses} \cup ListsOfLength(0) \cup ListsOfLength(1)
    /\ PageLoaded

ExampleSpec == InitExample /\ [][Next]_vars

(***************************************************************************)
(* The disk engine: SCAN.  The front end only posts to /simulate; the      *)
(* sweep below follows the description of the algorithm.                   *)
(***************************************************************************)
\* disk_size as the front end sends it; tracks are 0..DiskSize - 1.
DiskSize == 200

Directions == {"up", "down"}

\* The tracks and head positions the lists are drawn from: those of the worked
\* example and the two ends of the disk.
RequestTracks == {10, 70, 90}
HeadPositions == {0, 50, DiskSize - 1}

DiskRequestLists == UNION {[1..n -> RequestTracks] : n \in 0..MaxRequests}

Abs(x) == IF x < 0 THEN 0 - x ELSE x

\* The requests not yet visited that lie in direction dir of position, the
\* position itself included.
Ahead(requests, done, position, dir) ==
    {i \in DOMAIN requests \ done :
        IF dir = "up" THEN requests[i] >= position ELSE requests[i] <= position}

\* The next request of a sweep: the nearest one, the lowest index on a tie.
Nearest(requests, candidates, position) ==
    CHOOSE i \in candidates :
        \A j \in candidates :
            \/ Abs(requests[i] - position) < Abs(requests[j] - position)
            \/ Abs(requests[i] - position) = Abs(requests[j] - position) /\ i <= j

Opposite(dir) == IF dir = "up" THEN "down" ELSE "up"

\* Variant: the head turns where it stands, as LOOK does.
TurningPointAtHead(dir, position) == position

\* Where the sweep in direction dir ends before the head reverses: the disk
\* boundary in that direction, whether or not a request lies there.
TurningPoint(dir, position) == IF dir = "up" THEN DiskSize - 1 ELSE 0

\* total_seek_time: the sum of |delta track| over consecutive positions.
TotalSeekTime(movement) ==
    SumOver([k \in 1..(Len(movement) - 1) |-> Abs(movement[k + 1] - movement[k])],
            Len(movement) - 1)

HeadPosition == headMovement[Len(headMovement)]

\* A SCAN simulation starts: the movement begins at the initial head position.
ScanStart(initialHead, dir) ==
    /\ diskPc = "idle"
    /\ Len(diskRequests) > 0
    /\ diskPc' = "sweep"
    /\ direction' = dir
    /\ serviced' = {}
    /\ headMovement' = <<initialHead>>
    /\ UNCHANGED <<diskRequests, diskStatistics>>
    /\ UNCHANGED <<cpuVars, loadVars>>
    /\ UNCHANGED diskPageVars

\* One request served, in the commanded direction or, after the turn, in the
\* opposite one.
ScanService ==
    /\ diskPc \in {"sweep", "reversed"}
    /\ LET dir == IF diskPc = "sweep" THEN direction ELSE Opposite(direction)
           ahead == Ahead(diskRequests, serviced, HeadPosition, dir)
       IN /\ ahead # {}
          /\ serviced' = serviced \cup {Nearest(diskRequests, ahead, HeadPosition)}
          /\ headMovement' =
                Append(headMovement, diskRequests[Nearest(diskRequests, ahead, HeadPosition)])
    /\ UNCHANGED <<diskRequests, diskPc, direction, diskStatistics>>
    /\ UNCHANGED <<cpuVars, loadVars>>
    /\ UNCHANGED diskPageVars

\* Nothing is left in the commanded direction and requests remain behind the
\* head: the head goes on to the turning point and reverses.
ScanReverse ==
    /\ diskPc = "sweep"
    /\ Ahead(diskRequests, serviced, HeadPosition, direction) = {}
    /\ serviced # DOMAIN diskRequests
    /\ headMovement' = Append(headMovement, TurningPoint(direction, HeadPosition))
    /\ diskPc' = "reversed"
    /\ UNCHANGED <<diskRequests, direction, serviced, diskStatistics>>
    /\ UNCHANGED <<cpuVars, loadVars>>
    /\ UNCHANGED diskPageVars

\* Every request is served: the statistics of the movement.
ScanReturn ==
    /\ diskPc \in {"sweep", "reversed"}
    /\ serviced = DOMAIN diskRequests
    /\ diskStatistics' =
          [empty |-> FALSE,
           total_seek_time |-> TotalSeekTime(headMovement),
           total_requests |-> Len(diskRequests)]
    /\ diskPc' = "done"
    /\ UNCHANGED <<diskRequests, direction, serviced, headMovement>>
    /\ UNCHANGED <<cpuVars, loadVars>>
    /\ UNCHANGED diskPageVars

Scan ==
    \/ \E initialHead \in HeadPositions, dir \in Directions : ScanStart(initialHead, dir)
    \/ ScanService
    \/ ScanReverse
    \/ ScanReturn

InitDisk ==
    /\ processes = <<>>
    /\ CpuLoaded
    /\ LoadsSettled
    /\ diskRequests \in DiskRequestLists
    /\ DiskLoaded

DiskSpec == InitDisk /\ [][Scan]_vars

(***************************************************************************)
(* The disk page: runDiskSimulation and the response to its request.       *)
(***************************************************************************)
\* The last track, as the check of the initial head position spells it.
LastTrack == 199

DiskAlgorithms == {"fcfs", "sstf", "scan", "c_scan", "look", "c_look"}

\* parseInt of the initial head field: NaN, or an integer in or out of range.
ParsedHeads ==
    {NotANumber} \cup
    {[nan |-> FALSE, val |-> v] : v \in HeadPositions \cup {0 - 1, LastTrack + 1}}

\* Variant: the upper end of the range is not checked.
HeadRejectedBelowOnly(parsed) == parsed.nan \/ parsed.val < 0

\* isNaN(initialHead) || initialHead < 0 || initialHead > 199
HeadRejected(parsed) == parsed.nan \/ parsed.val < 0 \/ parsed.val > LastTrack

\* What a successful response can carry: a movement and its statistics.
SimulateResults ==
    {[head_movement |-> <<h, t>>,
      statistics |-> [empty |-> FALSE, total_seek_time |-> Abs(t - h), total_requests |-> 1]] :
        h \in HeadPositions, t \in RequestTracks}

\* diskRequests.length === 0: a warning, and nothing else happens.
RunDiskSimulationEmpty ==
    /\ ~simulateDisabled
    /\ ~awaiting
    /\ Len(diskRequests) = 0
    /\ diskAlert' = "warning"
    /\ UNCHANGED <<simulateDisabled, awaiting, simulateRequest, headMovementChart,
                   diskStatisticsShown>>
    /\ UNCHANGED <<diskRequests, diskEngineVars, cpuVars, loadVars>>

\* The initial head position is rejected: an alert, and nothing else happens.
RunDiskSimulationInvalidHead(parsed) ==
    /\ ~simulateDisabled
    /\ ~awaiting
    /\ Len(diskRequests) > 0
    /\ HeadRejected(parsed)
    /\ diskAlert' = "danger"
    /\ UNCHANGED <<simulateDisabled, awaiting, simulateRequest, headMovementChart,
                   diskStatisticsShown>>
    /\ UNCHANGED <<diskRequests, diskEngineVars, cpuVars, loadVars>>

\* The button is disabled and the request is sent; the handler waits.
RunDiskSimulationSend(parsed, selected, dir) ==
    /\ ~simulateDisabled
    /\ ~awaiting
    /\ Len(diskRequests) > 0
    /\ ~HeadRejected(parsed)
    /\ simulateDisabled' = TRUE
    /\ simulateRequest' =
          [sent |-> TRUE, algorithm |-> selected, initial_head_position |-> parsed.val,
           direction |-> dir, disk_size |-> DiskSize]
    /\ awaiting' = TRUE
    /\ UNCHANGED <<headMovementChart, diskStatisticsShown, diskAlert>>
    /\ UNCHANGED <<diskRequests, diskEngineVars, cpuVars, loadVars>>

\* response.ok: the chart and the statistics are updated, the button is reset.
SimulateResponseOk(result) ==
    /\ awaiting
    /\ headMovementChart' = result.head_movement
    /\ diskStatisticsShown' = result.statistics
    /\ diskAlert' = "success"
    /\ simulateDisabled' = FALSE
    /\ awaiting' = FALSE
    /\ UNCHANGED simulateRequest
    /\ UNCHANGED <<diskRequests, diskEngineVars, cpuVars, loadVars>>

\* An error response or a failed fetch: an alert, and the button is reset.
SimulateResponseFailed ==
    /\ awaiting
    /\ diskAlert' = "danger"
    /\ simulateDisabled' = FALSE
    /\ awaiting' = FALSE
    /\ UNCHANGED <<simulateRequest, headMovementChart, diskStatisticsShown>>
    /\ UNCHANGED <<diskRequests, diskEngineVars, cpuVars, loadVars>>

RunDiskSimulation ==
    \/ RunDiskSimulationEmpty
    \/ \E parsed \in ParsedHeads : RunDiskSimulationInvalidHead(parsed)
    \/ \E parsed \in ParsedHeads, selected \in DiskAlgorithms, dir \in Directions :
          RunDiskSimulationSend(parsed, selected, dir)
    \/ \E result \in SimulateResults : SimulateResponseOk(result)
    \/ SimulateResponseFailed

DiskPageSpec == InitDisk /\ [][RunDiskSimulation]_vars

(***************************************************************************)
(* loadProcesses: the calls, the backend's answers and their handling.     *)
(***************************************************************************)
\* The lists the backend goes through: empty, then one process, then two.
BackendLists == {SubSeq(ExampleProcesses, 1, n) : n \in 0..Len(ExampleProcesses)}

\* A call that the backend has not answered yet.
Unanswered(seq) == [seq |-> seq, answered |-> FALSE, ok |-> FALSE, data |-> <<>>]

\* loadProcesses is called (page load, refresh button): fetch('/processes').
LoadProcesses ==
    /\ loadsIssued < MaxLoads
    /\ loadsIssued' = loadsIssued + 1
    /\ loadsInFlight' = loadsInFlight \cup {Unanswered(loadsIssued + 1)}
    /\ UNCHANGED <<processes, alert, runVars, backendProcesses, latestResponse, diskVars>>

\* An add, update, delete or clear has succeeded on the backend, and its
\* handler calls loadProcesses.
ChangeThenLoadProcesses(changed) ==
    /\ loadsIssued < MaxLoads
    /\ changed # backendProcesses
    /\ backendProcesses' = changed
    /\ loadsIssued' = loadsIssued + 1
    /\ loadsInFlight' = loadsInFlight \cup {Unanswered(loadsIssued + 1)}
    /\ alert' = "success"
    /\ UNCHANGED <<processes, runVars, latestResponse, diskVars>>

\* The backend answers one call, with its list of that moment or an error.
\* Nothing orders the answers of different calls.
AnswerLoad(seq, ok) ==
    /\ Unanswered(seq) \in loadsInFlight
    /\ LET call == Unanswered(seq)
           response == [ok |-> ok, data |-> IF ok THEN backendProcesses ELSE <<>>]
       IN /\ loadsInFlight' =
                (loadsInFlight \ {call}) \cup
                {[seq |-> call.seq, answered |-> TRUE, ok |-> response.ok,
                  data |-> response.data]}
          /\ latestResponse' =
                IF call.seq = loadsIssued THEN response ELSE latestResponse
    /\ UNCHANGED <<processes, alert, runVars, backendProcesses, loadsIssued, diskVars>>

\* loadProcesses resumes with an answer: response.ok stores the data, any
\* other answer only shows an alert.
HandleLoadResponse(seq) ==
    /\ \E call \in loadsInFlight :
          /\ call.seq = seq
          /\ call.answered
          /\ loadsInFlight' = loadsInFlight \ {call}
          /\ IF call.ok
             THEN processes' = call.data /\ UNCHANGED alert
             ELSE alert' = "danger" /\ UNCHANGED processes
    /\ UNCHANGED <<runVars, backendProcesses, loadsIssued, latestResponse, diskVars>>

Load ==
    \/ LoadProcesses
    \/ \E changed \in BackendLists : ChangeThenLoadProcesses(changed)
    \/ \E seq \in 1..MaxLoads, ok \in BOOLEAN : AnswerLoad(seq, ok)
    \/ \E seq \in 1..MaxLoads : HandleLoadResponse(seq)

\* The page as the script starts: no list yet, the backend holds any list.
InitLoad ==
    /\ processes = <<>>
    /\ CpuLoaded
    /\ backendProcesses \in BackendLists
    /\ loadsIssued = 0
    /\ loadsInFlight = {}
    /\ latestResponse = [ok |-> FALSE, data |-> <<>>]
    /\ diskRequests = <<>>
    /\ DiskLoaded

LoadSpec == InitLoad /\ [][Load]_vars

\* The page together with direct calls of the engine.
EngineSpec == Init /\ [][Next \/ SimulateScheduling]_vars

(***************************************************************************)
(* Vocabulary of the properties.                                           *)
(***************************************************************************)
\* The position in the input list of the process with this pid.
IndexOfPid(pid) == CHOOSE i \in DOMAIN processes : processes[i].pid = pid

LastSegment(tl) == tl[Len(tl)]

\* The end of the segment before position k; the clock starts at 0.
EndBefore(tl, k) == IF k = 1 THEN 0 ELSE tl[k - 1].end

\* A dispatch is a step that appends one segment to the timeline.
Dispatched == Len(timeline') = Len(timeline) + 1

\* The indices of the processes a non-preemptive dispatch can choose from.
Candidates ==
    {i \in DOMAIN processesCopy :
        processesCopy[i].arrival_time <= currentTime /\ ~Includes(completed, i)}

(***************************************************************************)
(* C1.  FCFS: the timeline lists the processes in order of arrival_time    *)
(* ascending, then pid ascending, each exactly once, and each starts at    *)
(* the later of the end of the previous segment and its own arrival_time   *)
(* and runs for its whole burst_time.  Holds of the part of the timeline   *)
(* built so far, and of the whole of it once the call has returned.        *)
(***************************************************************************)
C1_FcfsArrivalThenPidOrder ==
    (algorithm = "fcfs" /\ pc \in {"fcfs", "done"}) =>
        /\ pc = "done" => Len(timeline) = Len(processes)
        /\ \A k \in DOMAIN timeline :
              /\ \E i \in DOMAIN processes : processes[i].pid = timeline[k].pid
              /\ LET p == processes[IndexOfPid(timeline[k].pid)]
                 IN /\ timeline[k].start =
                          (IF EndBefore(timeline, k) < p.arrival_time
                           THEN p.arrival_time ELSE EndBefore(timeline, k))
                    /\ timeline[k].duration = p.burst_time
                    /\ timeline[k].end = timeline[k].start + p.burst_time
                    \* every process not yet in the timeline sorts after p
                    /\ \A j \in DOMAIN processes :
                          (\A l \in 1..k : timeline[l].pid # processes[j].pid) =>
                              \/ p.arrival_time < processes[j].arrival_time
                              \/ /\ p.arrival_time = processes[j].arrival_time
                                 /\ p.pid < processes[j].pid

\* A finished FCFS run over three processes in which two processes arrive
\* together and the one with the larger pid comes first in the input.
C1_Witness ==
    /\ algorithm = "fcfs" /\ pc = "done"
    /\ Len(processes) = 3
    /\ \E i, j \in DOMAIN processes :
          /\ i < j
          /\ processes[i].arrival_time = processes[j].arrival_time
          /\ processes[i].pid > processes[j].pid

(***************************************************************************)
(* C2.  SJF: every dispatch chooses a process that has arrived and is not  *)
(* completed, starts it at current_time, and no arrived, uncompleted       *)
(* process has a strictly smaller burst_time at that moment.               *)
(***************************************************************************)
C2_SjfDispatchesShortest ==
    [][(pc = "sjf" /\ Dispatched) =>
          LET seg == LastSegment(timeline')
          IN /\ seg.start = currentTime
             /\ \E c \in Candidates :
                   /\ processesCopy[c].pid = seg.pid
                   /\ seg.duration = processesCopy[c].burst_time
                   /\ \A i \in Candidates :
                         processesCopy[i].burst_time >= processesCopy[c].burst_time]_vars

\* An SJF run in which a process was dispatched while a longer process that
\* stands before it in the input had arrived and was still waiting.
C2_Witness ==
    /\ algorithm = "sjf" /\ pc = "done"
    /\ \E k \in DOMAIN timeline : \E i, j \in DOMAIN processesCopy :
          /\ j < i
          /\ processesCopy[i].pid = timeline[k].pid
          /\ processesCopy[j].arrival_time <= timeline[k].start
          /\ processesCopy[j].completion_time > timeline[k].end
          /\ processesCopy[j].burst_time > processesCopy[i].burst_time

\* The processes tied at the minimum priority value at a Priority dispatch.
TiedAtMinimum ==
    {i \in Candidates :
        \A j \in Candidates : processesCopy[i].priority <= processesCopy[j].priority}

(***************************************************************************)
(* C3 as claimed.  Priority: every dispatch chooses a process of minimum   *)
(* priority value among the arrived, uncompleted processes, and among the  *)
(* processes tied at that value the chosen one has the lowest pid or the   *)
(* earliest arrival_time.                                                  *)
(***************************************************************************)
C3_TieByPidOrArrival ==
    [][(pc = "priority" /\ Dispatched) =>
          \E c \in TiedAtMinimum :
             /\ processesCopy[c].pid = LastSegment(timeline').pid
             /\ \/ \A i \in TiedAtMinimum : processesCopy[c].pid <= processesCopy[i].pid
                \/ \A i \in TiedAtMinimum :
                      processesCopy[c].arrival_time <= processesCopy[i].arrival_time]_vars

(***************************************************************************)
(* C3 as amended.  Priority: every dispatch chooses a process of minimum   *)
(* priority value among the arrived, uncompleted processes, starts it at   *)
(* current_time, and among the processes tied at that value the chosen one *)
(* is the one that comes first in the input collection.                    *)
(***************************************************************************)
C3_TieByInputOrder ==
    [][(pc = "priority" /\ Dispatched) =>
          \E c \in TiedAtMinimum :
             /\ processesCopy[c].pid = LastSegment(timeline').pid
             /\ LastSegment(timeline').start = currentTime
             /\ \A i \in TiedAtMinimum : c <= i]_vars

\* A Priority run in which a dispatched process shared its priority with a
\* waiting process that has a lower pid and arrived earlier.
C3_Witness ==
    /\ algorithm = "priority" /\ pc = "done"
    /\ \E k \in DOMAIN timeline : \E i, j \in DOMAIN processesCopy :
          /\ i < j
          /\ processesCopy[i].pid = timeline[k].pid
          /\ processesCopy[j].priority = processesCopy[i].priority
          /\ processesCopy[j].arrival_time < processesCopy[i].arrival_time
          /\ processesCopy[j].pid < processesCopy[i].pid
          /\ processesCopy[i].arrival_time <= timeline[k].start
          /\ processesCopy[j].completion_time > timeline[k].end

(***************************************************************************)
(* C4.  Round Robin with quantum > 0: no segment is longer than quantum,   *)
(* and a segment shorter than quantum is the last segment of its process:  *)
(* no later segment has its pid and the process has nothing left to run.   *)
(***************************************************************************)
C4_RrSegmentsWithinQuantum ==
    (algorithm = "rr" /\ pc \in {"rr", "done"} /\ quantum > 0) =>
        \A k \in DOMAIN timeline :
           /\ timeline[k].duration <= quantum
           /\ timeline[k].duration # quantum =>
                 /\ \A l \in DOMAIN timeline : l > k => timeline[l].pid # timeline[k].pid
                 /\ processesCopy[IndexOfPid(timeline[k].pid)].remaining_time = 0

\* A finished Round Robin run in which a process ran a full quantum and then
\* a shorter final segment.
C4_Witness ==
    /\ algorithm = "rr" /\ pc = "done" /\ quantum > 0
    /\ \E k, l \in DOMAIN timeline :
          /\ k < l
          /\ timeline[k].pid = timeline[l].pid
          /\ timeline[k].duration = quantum
          /\ timeline[l].duration < quantum

\* The processes the Round Robin loop has to append before a dispatch.
ToAppend ==
    {i \in DOMAIN processesCopy :
        /\ processesCopy[i].arrival_time <= currentTime
        /\ processesCopy[i].remaining_time > 0
        /\ ~Includes(queue, i)}

PositionIn(q, x) == CHOOSE k \in DOMAIN q : q[k] = x

(***************************************************************************)
(* C5.  Round Robin: at each dispatch every arrived, unfinished process    *)
(* that was not in the ready queue has been appended to it, and the        *)
(* processes appended at the same dispatch stand in the queue in ascending *)
(* arrival_time order.                                                     *)
(***************************************************************************)
C5_AppendedInArrivalOrder ==
    [][(pc = "rr" /\ Dispatched) =>
          LET current == IndexOfPid(LastSegment(timeline').pid)
          IN /\ \A i \in ToAppend : i = current \/ Includes(queue', i)
             /\ \A i, j \in ToAppend :
                   processesCopy[i].arrival_time < processesCopy[j].arrival_time =>
                      /\ j # current
                      /\ i # current =>
                            PositionIn(queue', i) < PositionIn(queue', j)]_vars

(***************************************************************************)
(* C6.  Round Robin: completion_time, turnaround_time and waiting_time of  *)
(* a process are set in the dispatch in which its remaining_time becomes   *)
(* 0, completion_time being the end of that segment; no other step changes *)
(* them, they are unset as long as the process has time remaining, and     *)
(* every process has them set when the simulation returns.                 *)
(***************************************************************************)
C6_RrCompletionSetOnce ==
    [][pc = "rr" =>
          /\ \A i \in DOMAIN processesCopy :
                LET before == processesCopy[i]
                    after == processesCopy'[i]
                IN /\ before.remaining_time > 0 => before.completion_time = Undefined
                   /\ IF before.remaining_time > 0 /\ after.remaining_time = 0
                      THEN /\ Dispatched
                           /\ LastSegment(timeline').pid = before.pid
                           /\ after.completion_time = LastSegment(timeline').end
                           /\ after.turnaround_time =
                                 after.completion_time - before.arrival_time
                           /\ after.waiting_time =
                                 after.turnaround_time - before.burst_time
                      ELSE /\ after.completion_time = before.completion_time
                           /\ after.turnaround_time = before.turnaround_time
                           /\ after.waiting_time = before.waiting_time
          /\ pc' = "done" =>
                \A i \in DOMAIN processesCopy :
                   /\ processesCopy'[i].completion_time # Undefined
                   /\ processesCopy'[i].turnaround_time # Undefined
                   /\ processesCopy'[i].waiting_time # Undefined]_vars

\* A finished Round Robin run over three processes in which a process was
\* preempted, and so completed in a later dispatch than its first.
C6_Witness ==
    /\ algorithm = "rr" /\ pc = "done"
    /\ Len(processes) = 3
    /\ \E k, l \in DOMAIN timeline : k < l /\ timeline[k].pid = timeline[l].pid
    /\ \A i \in DOMAIN processesCopy : processesCopy[i].completion_time # Undefined

(***************************************************************************)
(* C7.  After a finished simulation of any of the four algorithms, every   *)
(* process has completion_time >= arrival_time + burst_time,               *)
(* turnaround_time = completion_time - arrival_time, waiting_time =        *)
(* turnaround_time - burst_time, waiting_time >= 0 and turnaround_time >=  *)
(* burst_time.                                                             *)
(***************************************************************************)
C7_CompletionFields ==
    (pc = "done" /\ algorithm \in Algorithms) =>
        \A i \in DOMAIN processesCopy :
           LET p == processesCopy[i]
           IN /\ p.completion_time >= p.arrival_time + p.burst_time
              /\ p.turnaround_time = p.completion_time - p.arrival_time
              /\ p.waiting_time = p.turnaround_time - p.burst_time
              /\ p.waiting_time >= 0
              /\ p.turnaround_time >= p.burst_time

\* A finished run in which one process waited and another, arriving after
\* time 0, ran the moment it arrived.
C7_Witness ==
    /\ pc = "done" /\ algorithm = "sjf"
    /\ \E i, j \in DOMAIN processesCopy :
          /\ processesCopy[i].waiting_time > 0
          /\ processesCopy[j].arrival_time > 0
          /\ processesCopy[j].waiting_time = 0

\* The durations of the segments of one pid, added up.
RECURSIVE DurationOfPid(_, _)
DurationOfPid(tl, pid) ==
    IF tl = <<>> THEN 0
    ELSE (IF Head(tl).pid = pid THEN Head(tl).duration ELSE 0)
            + DurationOfPid(Tail(tl), pid)

\* The durations of all segments, added up.
RECURSIVE TotalDuration(_)
TotalDuration(tl) ==
    IF tl = <<>> THEN 0 ELSE Head(tl).duration + TotalDuration(Tail(tl))

(***************************************************************************)
(* C8.  After a finished simulation of any of the four algorithms, the     *)
(* durations of the segments of each pid add up to the burst_time of that  *)
(* process, and the durations of all segments to the sum of all            *)
(* burst_times.                                                            *)
(***************************************************************************)
C8_DurationsSumToBurst ==
    (pc = "done" /\ algorithm \in Algorithms) =>
        /\ \A i \in DOMAIN processes :
              DurationOfPid(timeline, processes[i].pid) = processes[i].burst_time
        /\ \A k \in DOMAIN timeline :
              \E i \in DOMAIN processes : processes[i].pid = timeline[k].pid
        /\ TotalDuration(timeline) = TotalBurst(processes)

\* A finished Round Robin run with a process split over several segments and
\* an idle gap in the timeline.
C8_Witness ==
    /\ pc = "done" /\ algorithm = "rr"
    /\ \E k, l \in DOMAIN timeline : k < l /\ timeline[k].pid = timeline[l].pid
    /\ \E k \in DOMAIN timeline : timeline[k].start > EndBefore(timeline, k)

(***************************************************************************)
(* C9.  Every simulation call on a non-empty list (quantum > 0 for Round   *)
(* Robin) reaches its return.                                              *)
(***************************************************************************)
C9_SimulationTerminates ==
    (pc \in Algorithms /\ (pc = "rr" => quantum > 0)) ~> (pc = "done")

\* A finished Round Robin run in which the loop had to jump over an idle gap
\* after it had already dispatched a process.
C9_Witness ==
    /\ pc = "done" /\ algorithm = "rr" /\ quantum > 0
    /\ \E k \in DOMAIN timeline : k > 1 /\ timeline[k].start > timeline[k - 1].end

(***************************************************************************)
(* C10.  A Round Robin simulation requested with quantum <= 0 is rejected  *)
(* with an error: the call fails, the quantum is not replaced by another   *)
(* value, and the loop does not run.                                       *)
(***************************************************************************)
C10_NonPositiveQuantumRejected ==
    (algorithm = "rr" /\ pc # "idle" /\ ~parsedQuantum.nan /\ parsedQuantum.val <= 0) =>
        /\ pc = "failed"
        /\ alert = "danger"

(***************************************************************************)
(* C11.  A simulation over a list in which some process has burst_time <=  *)
(* 0 fails: it never finishes normally, and the chart and the statistics   *)
(* display show nothing of it.                                             *)
(***************************************************************************)
C11_NonPositiveBurstRejected ==
    (\E i \in DOMAIN processes : processes[i].burst_time <= 0) =>
        /\ pc # "done"
        /\ ganttChart = <<>>
        /\ statisticsShown = NoStatistics

(***************************************************************************)
(* C14.  When total_time, the largest completion_time, is 0, the           *)
(* statistics computation fails: no run ends normally with a throughput    *)
(* of NaN or Infinity over a total_time of 0.                              *)
(***************************************************************************)
C14_ZeroTotalTimeFailsCleanly ==
    ~(/\ pc = "done"
      /\ ~statistics.empty
      /\ statistics.total_time = 0
      /\ statistics.throughput.kind \in {"NaN", "Infinity"})

(***************************************************************************)
(* C12.  An empty process set is an error: runSimulation runs no algorithm *)
(* and leaves the chart and the statistics as they were, and               *)
(* simulateScheduling on an empty collection does not return a normal      *)
(* {timeline, statistics} result.                                          *)
(***************************************************************************)
C12_EmptySetIsAnError ==
    Len(processes) = 0 =>
        /\ pc \notin Algorithms \cup {"done"}
        /\ ganttChart = <<>>
        /\ statisticsShown = NoStatistics
        /\ pc # "returned"

(***************************************************************************)
(* C13.  A selector other than fcfs, sjf, rr and priority makes            *)
(* simulateScheduling throw with no timeline and no statistics, and        *)
(* runSimulation then leaves both the Gantt chart and the statistics       *)
(* display exactly as the previous run left them.                          *)
(***************************************************************************)
C13_UnknownSelectorAllOrNothing ==
    [][(algorithm' = "other" /\ pc = "idle") =>
          /\ pc' = "failed"
          /\ timeline' = <<>>
          /\ statistics' = NoStatistics
          /\ UNCHANGED display]_vars

C13_Witness ==
    /\ pc = "failed"
    /\ algorithm = "other"
    /\ ganttChart # <<>>
    /\ statisticsShown # NoStatistics

(***************************************************************************)
(* C16.  No step of a simulation changes the records of the global list:   *)
(* pid, arrival_time, burst_time and priority, no added field, the same    *)
(* order, so the next simulation starts from the same input.               *)
(***************************************************************************)
C16_CallerRecordsUnchanged ==
    [][/\ processes' = processes
       /\ \A i \in DOMAIN processes' :
             DOMAIN processes'[i] = {"pid", "arrival_time", "burst_time", "priority"}]_vars

\* A second run has written to its objects while the chart of the first run
\* is still on the page.
C16_Witness ==
    /\ pc \in Algorithms
    /\ ganttChart # <<>>
    /\ \E i \in DOMAIN processesCopy : processesCopy[i].completion_time # Undefined

\* The timeline of the worked example: P1 over [0,5], P2 over [5,8].
ExampleTimeline == <<Segment(1, 0, 5), Segment(2, 5, 3)>>

ExampleFcfsDone == processes = ExampleProcesses /\ algorithm = "fcfs" /\ pc = "done"

(***************************************************************************)
(* C17 as claimed.  FCFS on P1(arrival 0, burst 5), P2(arrival 1, burst 3) *)
(* gives the timeline P1 [0,5], P2 [5,8] and avg_waiting_time 0.5.         *)
(***************************************************************************)
C17_ExampleWaitingHalf ==
    ExampleFcfsDone =>
        /\ timeline = ExampleTimeline
        /\ statistics.avg_waiting_time = [kind |-> "number", hundredths |-> 50]

(***************************************************************************)
(* C17 as amended.  FCFS on the same two processes gives the timeline      *)
(* P1 [0,5], P2 [5,8] and avg_waiting_time "2.00": P1 waits 0 and P2       *)
(* waits 8 - 1 - 3 = 4.                                                    *)
(***************************************************************************)
C17_ExampleWaitingTwo ==
    ExampleFcfsDone =>
        /\ timeline = ExampleTimeline
        /\ ganttChart = ExampleTimeline
        /\ statistics.avg_waiting_time = [kind |-> "number", hundredths |-> 200]
        /\ statisticsShown = statistics

C17_Witness == ExampleFcfsDone /\ Len(timeline) = 2

\* The worked SCAN example: head at 50, requests on 10, 70, 90, direction up.
ExampleScanDone ==
    /\ diskRequests = <<10, 70, 90>>
    /\ diskPc = "done"
    /\ direction = "up"
    /\ headMovement[1] = 50

\* Position k of the movement is the first visit of track t.
FirstVisit(t) == CHOOSE k \in DOMAIN headMovement :
                    headMovement[k] = t /\ \A j \in 1..(k - 1) : headMovement[j] # t

(***************************************************************************)
(* C18 as claimed.  SCAN with the head at 50, requests on tracks 10, 70    *)
(* and 90, direction up and 200 tracks visits 70 and 90 before it turns    *)
(* back to 10, and total_seek_time is 120.                                 *)
(***************************************************************************)
C18_ScanExampleSeek120 ==
    ExampleScanDone =>
        /\ FirstVisit(70) < FirstVisit(90)
        /\ FirstVisit(90) < FirstVisit(10)
        /\ diskStatistics.total_seek_time = 120

(***************************************************************************)
(* C18 as amended.  The same SCAN run visits 70 and 90, goes on to the     *)
(* boundary 199, turns and visits 10; total_seek_time is                   *)
(* (199 - 50) + (199 - 10) = 338.                                          *)
(***************************************************************************)
C18_ScanExampleSeek338 ==
    ExampleScanDone =>
        /\ headMovement = <<50, 70, 90, 199, 10>>
        /\ diskStatistics.total_seek_time = 338

C18_Witness == ExampleScanDone /\ Len(headMovement) > 1

\* The indices of the processes SJF and Priority have not completed yet.
Uncompleted == {i \in DOMAIN processesCopy : ~Includes(completed, i)}

\* currentTime is the earliest arrival among the uncompleted processes.
AtEarliestArrival(t) ==
    /\ \A i \in Uncompleted : t <= processesCopy[i].arrival_time
    /\ \E i \in Uncompleted : t = processesCopy[i].arrival_time

(***************************************************************************)
(* C19.  SJF and Priority: when no uncompleted process has arrived by      *)
(* currentTime, the step sets currentTime to the smallest arrival_time     *)
(* among the uncompleted processes and emits no segment; a segment that    *)
(* follows a gap starts exactly at that arrival time.                      *)
(***************************************************************************)
C19_IdleJumpToEarliestArrival ==
    [][(pc \in {"sjf", "priority"} /\ Len(completed) < Len(processesCopy)) =>
          IF Candidates = {}
          THEN /\ AtEarliestArrival(currentTime')
               /\ timeline' = timeline
               /\ completed' = completed
          ELSE /\ Dispatched
               /\ LastSegment(timeline').start = currentTime
               /\ LastSegment(timeline').start > EndBefore(timeline', Len(timeline'))
                     => AtEarliestArrival(currentTime)]_vars

\* A segment has been dispatched after a gap that followed an earlier segment.
C19_Witness ==
    /\ algorithm \in {"sjf", "priority"}
    /\ Len(timeline) >= 2
    /\ LastSegment(timeline).start > EndBefore(timeline, Len(timeline))

\* The positions of the timeline that hold a segment of this pid.
SegmentsOfPid(pid) == {k \in DOMAIN timeline : timeline[k].pid = pid}

(***************************************************************************)
(* C20.  FCFS, SJF and Priority: no pid ever has more than one segment;    *)
(* a process's segment has duration burst_time and ends at its             *)
(* completion_time; at the end the timeline holds exactly one segment per  *)
(* input process.                                                          *)
(***************************************************************************)
C20_OneSegmentPerProcess ==
    (algorithm \in {"fcfs", "sjf", "priority"} /\ pc \in {"fcfs", "sjf", "priority", "done"}) =>
        /\ \A i \in DOMAIN processes :
              /\ Cardinality(SegmentsOfPid(processes[i].pid)) <= 1
              /\ \A k \in SegmentsOfPid(processes[i].pid) :
                    /\ timeline[k].duration = processes[i].burst_time
                    /\ timeline[k].end = processesCopy[i].completion_time
              /\ pc = "done" => Cardinality(SegmentsOfPid(processes[i].pid)) = 1
        /\ pc = "done" => Len(timeline) = Len(processes)

C20_Witness ==
    /\ algorithm \in {"fcfs", "sjf", "priority"}
    /\ pc = "done"
    /\ Len(timeline) = MaxProcs

NonPreemptive == {"fcfs", "sjf", "priority"}

(***************************************************************************)
(* C21.  The reported avg_response_time equals the reported                *)
(* avg_waiting_time, for the non-preemptive algorithms and for Round Robin *)
(* alike; under FCFS, SJF and Priority the waiting_time of a process is    *)
(* the start of its segment minus its arrival_time.                        *)
(***************************************************************************)
C21_ResponseIsWaiting ==
    /\ pc = "done" =>
          /\ statistics.avg_response_time = statistics.avg_waiting_time
          /\ statisticsShown.avg_response_time = statisticsShown.avg_waiting_time
    /\ (algorithm \in NonPreemptive /\ pc \in NonPreemptive \cup {"done"}) =>
          \A i \in DOMAIN processes :
             \A k \in SegmentsOfPid(processes[i].pid) :
                processesCopy[i].waiting_time = timeline[k].start - processes[i].arrival_time

\* A non-preemptive run has ended in which some process had to wait.
C21_Witness ==
    /\ pc = "done"
    /\ algorithm \in NonPreemptive
    /\ \E i \in DOMAIN processesCopy : processesCopy[i].waiting_time > 0

\* The step sends a /simulate request.
RequestSent == awaiting' /\ ~awaiting

\* The step is a press of the simulate button that does not send a request.
PressRejected == ~awaiting /\ ~awaiting' /\ diskAlert' \in {"warning", "danger"}

(***************************************************************************)
(* C22.  runDiskSimulation sends a /simulate request only when the loaded  *)
(* request list is not empty and the initial head position parsed to an    *)
(* integer in 0..199; a press that sends nothing leaves the button         *)
(* enabled and the head-movement chart and the statistics as they were.    *)
(***************************************************************************)
C22_RequestOnlyForValidInput ==
    [][/\ RequestSent =>
             /\ Len(diskRequests) > 0
             /\ simulateRequest'.sent
             /\ simulateRequest'.initial_head_position \in 0..199
       /\ simulateRequest' # simulateRequest => RequestSent
       /\ PressRejected =>
             /\ Len(diskRequests) = 0 \/ diskAlert' = "danger"
             /\ ~simulateDisabled'
             /\ UNCHANGED <<simulateRequest, headMovementChart, diskStatisticsShown>>]_vars

\* A press was rejected while the page shows the result of an earlier request.
C22_Witness ==
    /\ ~awaiting
    /\ diskAlert = "danger"
    /\ headMovementChart # <<>>
    /\ simulateRequest.sent
    /\ ~simulateDisabled

\* Segment k leaves its process unfinished: the quantum expired.
Preempted(k) ==
    DurationOfPid(SubSeq(timeline, 1, k), timeline[k].pid)
        < processes[IndexOfPid(timeline[k].pid)].burst_time

\* Process j arrived during the slice of segment k, its end included.
ArrivedDuring(j, k) ==
    /\ processes[j].pid # timeline[k].pid
    /\ timeline[k].start < processes[j].arrival_time
    /\ processes[j].arrival_time <= timeline[k].end

(***************************************************************************)
(* C23.  Round Robin: when the quantum of a process expires with work      *)
(* left, the process is queued before the processes that arrived during    *)
(* its slice or exactly at its end; so every segment of such a newcomer    *)
(* comes after the next segment of the preempted process.                  *)
(***************************************************************************)
C23_PreemptedBeforeNewcomers ==
    (algorithm = "rr" /\ pc \in {"rr", "done"}) =>
        \A k \in DOMAIN timeline : \A j \in DOMAIN processes :
            (Preempted(k) /\ ArrivedDuring(j, k)) =>
                \A m \in SegmentsOfPid(processes[j].pid) :
                    \E n \in SegmentsOfPid(timeline[k].pid) : k < n /\ n < m

\* A newcomer has run after the process whose slice it arrived in ran again.
C23_Witness ==
    /\ algorithm = "rr"
    /\ \E k \in DOMAIN timeline : \E j \in DOMAIN processes :
          /\ Preempted(k)
          /\ ArrivedDuring(j, k)
          /\ SegmentsOfPid(processes[j].pid) # {}

\* A simulation is running or has ended normally.
Simulating == pc \in Algorithms \cup {"done"}

\* The quantum Round Robin received is a valid one.
ValidQuantum == algorithm = "rr" => quantum > 0

(***************************************************************************)
(* C24.  On valid input the timeline of each of the four algorithms is     *)
(* time-ordered and free of overlap: every segment has end = start +       *)
(* duration and duration > 0, and starts no earlier than the segment       *)
(* before it ends.                                                         *)
(***************************************************************************)
C24_TimelineOrdered ==
    (Simulating /\ ValidQuantum) =>
        \A k \in DOMAIN timeline :
            /\ timeline[k].end = timeline[k].start + timeline[k].duration
            /\ timeline[k].duration > 0
            /\ timeline[k].start >= EndBefore(timeline, k)

\* A Round Robin run with a valid quantum has ended with several segments,
\* one of them after a gap.
C24_Witness ==
    /\ pc = "done"
    /\ algorithm = "rr"
    /\ quantum > 0
    /\ Len(timeline) >= 3
    /\ \E k \in DOMAIN timeline : k > 1 /\ timeline[k].start > EndBefore(timeline, k)

(***************************************************************************)
(* C25.  No process runs before it arrives: under each of the four         *)
(* algorithms every segment of a returned timeline, and every segment of   *)
(* a run in progress whose quantum is valid, starts at or after the        *)
(* arrival_time of its process.                                            *)
(***************************************************************************)
C25_NoRunBeforeArrival ==
    (Simulating /\ (pc = "done" \/ ValidQuantum)) =>
        \A k \in DOMAIN timeline :
            timeline[k].start >= processes[IndexOfPid(timeline[k].pid)].arrival_time

\* A process that arrived after time 0 has run, and not as the first one.
C25_Witness ==
    /\ Simulating
    /\ \E k \in DOMAIN timeline :
          /\ k > 1
          /\ processes[IndexOfPid(timeline[k].pid)].arrival_time > 0
          /\ timeline[k].start = processes[IndexOfPid(timeline[k].pid)].arrival_time

\* Segment k starts after an idle gap.
GapBefore(k) == timeline[k].start > EndBefore(timeline, k)

\* The work process i still has to do when segment k is dispatched.
UnfinishedAt(i, k) ==
    DurationOfPid(SubSeq(timeline, 1, k - 1), processes[i].pid) < processes[i].burst_time

(***************************************************************************)
(* C26.  The simulated CPU is work-conserving under each of the four       *)
(* algorithms: before an idle gap every process that had arrived by the    *)
(* start of the gap is finished, and the gap ends exactly at the earliest  *)
(* arrival_time of an unfinished process.                                  *)
(***************************************************************************)
C26_WorkConserving ==
    Simulating =>
        \A k \in DOMAIN timeline :
            GapBefore(k) =>
                /\ \A i \in DOMAIN processes :
                      processes[i].arrival_time <= EndBefore(timeline, k) => ~UnfinishedAt(i, k)
                /\ \A i \in DOMAIN processes :
                      UnfinishedAt(i, k) => timeline[k].start <= processes[i].arrival_time
                /\ \E i \in DOMAIN processes :
                      UnfinishedAt(i, k) /\ timeline[k].start = processes[i].arrival_time

\* A run has a gap between two segments, after which two processes are still
\* unfinished.
C26_Witness ==
    /\ Simulating
    /\ \E k \in DOMAIN timeline :
          /\ k > 1
          /\ GapBefore(k)
          /\ \E i \in DOMAIN processes :
                UnfinishedAt(i, k) /\ processes[i].pid # timeline[k].pid

(***************************************************************************)
(* C27.  Once the responses of all loadProcesses calls have been handled,  *)
(* the global list processes is the response to the most recently issued   *)
(* call, even if the response to an earlier call arrived after it.         *)
(***************************************************************************)
C27_LatestLoadWins ==
    (loadsIssued > 0 /\ loadsInFlight = {} /\ latestResponse.ok) =>
        processes = latestResponse.data

=============================================================================
